---------------------------- MODULE Spec2Model ----------------------------
(***************************************************************************)
(* Model of mltk/maxent/owlqn.cc: the OWLQN driver MaxEnt::PerformOWLQN,   *)
(* PseudoGradient, MaxEnt::RegularizedFuncGrad and                         *)
(* MaxEnt::ConstrainedLineSearch.                                          *)
(*                                                                         *)
(* Numbers.  A C++ double is modelled by an exact rational <<n, d>> in     *)
(* lowest terms with d > 0.  Two values have d = 0: Inf, the result of     *)
(* 1.0 / 0.0, and NaV, which stands for a value the model does not track   *)
(* (a number larger than MaxNum, or an array slot that was never written). *)
(* Every action is guarded so that it only fires while everything it       *)
(* computes stays tracked; rounding is not modelled.                       *)
(*                                                                         *)
(* Collaborators that are not part of owlqn.cc (DoubleVector, the smooth   *)
(* objective MaxEnt::FunctionGradient, ApproximateHg) are modelled after   *)
(* their description in the specification.                                 *)
(***************************************************************************)
EXTENDS Integers, Sequences, FiniteSets, TLC

\* ------------------------------------------------------------------------
\* Program constants (owlqn.cc:22-28)
OWLQN_M == 10
OWLQN_MAX_ITER == 300
MinGradNormDen == 10000

\* Bound of the model: largest numerator/denominator that is tracked.
MaxNum == 30000

\* ------------------------------------------------------------------------
\* double arithmetic
Abs(n) == IF n < 0 THEN -n ELSE n

RECURSIVE Gcd(_, _)
Gcd(m, n) == IF n = 0 THEN m ELSE Gcd(n, m % n)

NaV == <<0, 0>>
Inf == <<1, 0>>
IsFin(r) == r[2] > 0

Norm(n, d) ==
  LET g == Gcd(Abs(n), d)
      nn == n \div g
      dd == d \div g
  IN  IF Abs(nn) > MaxNum \/ dd > MaxNum THEN NaV ELSE <<nn, dd>>

R(n) == <<n, 1>>
Zero == <<0, 1>>

RAdd(p, q) ==
  IF IsFin(p) /\ IsFin(q) THEN Norm(p[1] * q[2] + q[1] * p[2], p[2] * q[2]) ELSE NaV

RNeg(p) == IF IsFin(p) THEN <<-p[1], p[2]>> ELSE NaV

RSub(p, q) == RAdd(p, RNeg(q))

RMul(p, q) ==
  IF IsFin(p) /\ IsFin(q) THEN Norm(p[1] * q[1], p[2] * q[2]) ELSE NaV

\* 1.0 / p ; the quotient by zero is +infinity
RInv(p) ==
  IF ~IsFin(p) THEN NaV
  ELSE IF p[1] = 0 THEN Inf
  ELSE IF p[1] > 0 THEN <<p[2], p[1]>>
  ELSE <<-p[2], -p[1]>>

RDiv(p, q) == IF IsFin(q) /\ q[1] # 0 THEN RMul(p, RInv(q)) ELSE NaV

RLess(p, q) == p[1] * q[2] < q[1] * p[2]
RLeq(p, q) == p[1] * q[2] <= q[1] * p[2]

\* fabs
RAbs(p) == IF IsFin(p) THEN <<Abs(p[1]), p[2]>> ELSE NaV

LINE_SEARCH_ALPHA == <<1, 10>>
LINE_SEARCH_BETA == <<1, 2>>

\* ------------------------------------------------------------------------
\* owlqn.cc:30-34
Sign(p) == IF p[1] > 0 THEN 1 ELSE IF p[1] < 0 THEN -1 ELSE 0

\* ------------------------------------------------------------------------
\* DoubleVector
OkVec(v) == \A i \in DOMAIN v : IsFin(v[i])

VAdd(u, v) == [i \in DOMAIN u |-> IF i \in DOMAIN v THEN RAdd(u[i], v[i]) ELSE NaV]
VSub(u, v) == [i \in DOMAIN u |-> IF i \in DOMAIN v THEN RSub(u[i], v[i]) ELSE NaV]
Scale(c, v) == [i \in DOMAIN v |-> RMul(c, v[i])]
VNeg(v) == [i \in DOMAIN v |-> RNeg(v[i])]

RECURSIVE DotUpTo(_, _, _)
DotUpTo(u, v, n) ==
  IF n = 0 THEN Zero ELSE RAdd(DotUpTo(u, v, n - 1), RMul(u[n], v[n]))

DotProduct(u, v) == IF Len(u) = Len(v) THEN DotUpTo(u, v, Len(u)) ELSE NaV

\* v.Project(ref): zero every coordinate whose sign disagrees with ref's
Project(v, ref) ==
  [i \in DOMAIN v |-> IF Sign(v[i]) # Sign(ref[i]) THEN Zero ELSE v[i]]

\* ------------------------------------------------------------------------
\* State
VARIABLES
  qa, qb,      \* the smooth objective: loss(x) = SUM qa[i]*x[i]^2/2 + qb[i]*x[i]
  C,           \* L1 strength
  x0,          \* caller's starting point
  x, grad, f,  \* PerformOWLQN: current point, smooth gradient, objective
  s, y, z,     \* PerformOWLQN: history arrays, indexed 0 .. OWLQN_M-1
  iter,        \* PerformOWLQN: loop counter
  pg, dx,      \* PerformOWLQN: pseudo-gradient and search direction
  x1, grad1,   \* PerformOWLQN: outputs of the line search
  orthant, t,  \* ConstrainedLineSearch: locals
  fls,         \* ConstrainedLineSearch: local f
  pc,          \* control point
  ret,         \* value returned by PerformOWLQN
  ncalls,      \* number of calls of FunctionGradient so far
  nwrites,     \* number of history writes so far
  trials,      \* trials made by the running line search
  projected,   \* whether line 95 projected dx in this iteration
  wrote,       \* wrote[j]: the iteration that last wrote slot j, or -1
  recent,      \* the triples of the last min(iter, OWLQN_M) iterations, oldest first
  readSlots    \* the slots ApproximateHg read in this iteration

vars == <<qa, qb, C, x0, x, grad, f, s, y, z, iter, pg, dx, x1, grad1,
          orthant, t, fls, pc, ret, ncalls, nwrites, trials, projected,
          wrote, recent, readSlots>>

dim == Len(x0)

\* ------------------------------------------------------------------------
\* MaxEnt::FunctionGradient: the smooth loss and its gradient, a pure
\* function of the point.
RECURSIVE LossUpTo(_, _, _, _)
LossUpTo(a, b, v, n) ==
  IF n = 0 THEN Zero
  ELSE RAdd(LossUpTo(a, b, v, n - 1),
            RAdd(RMul(RMul(R(a[n]), v[n]), RMul(<<1, 2>>, v[n])),
                 RMul(R(b[n]), v[n])))

SmoothLoss(a, b, v) == LossUpTo(a, b, v, Len(v))

SmoothGrad(a, b, v) ==
  [i \in DOMAIN v |-> RAdd(RMul(R(a[i]), v[i]), R(b[i]))]

\* owlqn.cc:111-119
RECURSIVE L1UpTo(_, _, _)
L1UpTo(c, v, n) ==
  IF n = 0 THEN Zero ELSE RAdd(L1UpTo(c, v, n - 1), RMul(c, RAbs(v[n])))

\* RegularizedFuncGrad without the fabs
RegularizedFunc_NoAbs(a, b, c, v) ==
  RAdd(SmoothLoss(a, b, v), DotProduct(Scale(c, v), [i \in DOMAIN v |-> R(1)]))

RegularizedFunc(a, b, c, v) == RAdd(SmoothLoss(a, b, v), L1UpTo(c, v, Len(v)))

\* ------------------------------------------------------------------------
\* PseudoGradient with the sign of x[i] dropped
PseudoGradient_NoSign(v, grad0, c) ==
  [i \in DOMAIN v |->
     IF v[i][1] # 0 THEN RAdd(grad0[i], c)
     ELSE LET gm == RSub(grad0[i], c) IN
          IF gm[1] > 0 THEN gm
          ELSE LET gp == RAdd(grad0[i], c) IN
               IF gp[1] < 0 THEN gp ELSE Zero]

\* owlqn.cc:36-59
PseudoGradient(v, grad0, c) ==
  [i \in DOMAIN v |->
     IF v[i][1] # 0 THEN RAdd(grad0[i], RMul(c, R(Sign(v[i]))))
     ELSE LET gm == RSub(grad0[i], c) IN
          IF gm[1] > 0 THEN gm
          ELSE LET gp == RAdd(grad0[i], c) IN
               IF gp[1] < 0 THEN gp ELSE Zero]

\* owlqn.cc:92  sqrt(DotProduct(pg, pg)) < MIN_GRAD_NORM, with
\* MIN_GRAD_NORM = 1 / MinGradNormDen:  n/d < 1/K^2  iff  n*K^2 < d
BelowMinGradNorm(v) ==
  LET n2 == DotProduct(v, v) IN
  n2[1] <= (n2[2] - 1) \div (MinGradNormDen * MinGradNormDen)

\* ------------------------------------------------------------------------
\* ApproximateHg (declared at owlqn.cc:61-65): the L-BFGS two-loop recursion
\* over the min(iter, OWLQN_M) most recent triples.  A pair with y.s = 0
\* (rho infinite) contributes nothing.
HgFirst(it) == IF it <= OWLQN_M THEN 0 ELSE it - OWLQN_M

HgSlot(k) == k % OWLQN_M

HgSlots(it) == {HgSlot(k) : k \in HgFirst(it) .. it - 1}

RECURSIVE HgBackward(_, _, _, _, _, _, _)
HgBackward(k, lo, q, al, ss, yy, zz) ==
  IF k < lo THEN [q |-> q, alpha |-> al]
  ELSE LET j == HgSlot(k) IN
       IF zz[j] = Inf THEN HgBackward(k - 1, lo, q, al, ss, yy, zz)
       ELSE LET ak == RMul(zz[j], DotProduct(ss[j], q)) IN
            HgBackward(k - 1, lo, VSub(q, Scale(ak, yy[j])),
                       (k :> ak) @@ al, ss, yy, zz)

HgScale(it, q, ss, yy, zz) ==
  IF it = 0 THEN q
  ELSE LET j == HgSlot(it - 1) IN
       IF zz[j] = Inf THEN q
       ELSE Scale(RDiv(DotProduct(ss[j], yy[j]), DotProduct(yy[j], yy[j])), q)

RECURSIVE HgForward(_, _, _, _, _, _, _)
HgForward(k, hi, q, al, ss, yy, zz) ==
  IF k > hi THEN q
  ELSE LET j == HgSlot(k) IN
       IF zz[j] = Inf THEN HgForward(k + 1, hi, q, al, ss, yy, zz)
       ELSE LET bk == RMul(zz[j], DotProduct(yy[j], q)) IN
            HgForward(k + 1, hi, VAdd(q, Scale(RSub(al[k], bk), ss[j])),
                      al, ss, yy, zz)

ApproximateHg(it, g, ss, yy, zz) ==
  LET back == HgBackward(it - 1, HgFirst(it), g, <<>>, ss, yy, zz)
      mid == HgScale(it, back.q, ss, yy, zz)
  IN  HgForward(HgFirst(it), it - 1, mid, back.alpha, ss, yy, zz)

\* ------------------------------------------------------------------------
\* Inputs of PerformOWLQN and the data behind FunctionGradient
Half == <<1, 2>>

Inputs1 ==
  {[a |-> <<a1>>, b |-> <<b1>>, x0 |-> <<R(v1)>>, C |-> c] :
     a1 \in {-1, 0, 1, 2, 3}, b1 \in {-2, -1, 0, 1}, v1 \in {-1, 0, 1, 2},
     c \in {Zero, Half, R(1), R(2)}}

Inputs2 ==
  {[a |-> <<a1, a2>>, b |-> <<b1, b2>>, x0 |-> <<R(v1), R(v2)>>, C |-> c] :
     a1 \in {-1, 1}, a2 \in {1, 2}, b1 \in {-2, 1}, b2 \in {-2, 0},
     v1 \in {0, 1}, v2 \in {-1, 0}, c \in {Zero, R(1)}}

Inputs3 ==
  {[a |-> <<0, -4>>, b |-> <<1, 1>>, x0 |-> <<<<7, 2>>, R(1)>>, C |-> R(2)],
   [a |-> <<0, -3>>, b |-> <<3, 2>>, x0 |-> <<R(5), <<3, 2>>>>, C |-> R(1)]}

Inputs4 ==
  {[a |-> <<0, 1>>, b |-> <<b1, b2>>, x0 |-> <<R(v1), R(v2)>>, C |-> c] :
     b1 \in {-2, -1}, b2 \in {-2, 2}, v1 \in {-1, 0}, v2 \in {-1, 1},
     c \in {Zero, Half, R(1)}}

Inputs == Inputs1 \cup Inputs2 \cup Inputs3 \cup Inputs4

ZeroVec(n) == [i \in 1 .. n |-> Zero]

\* owlqn.cc:69-77
Init ==
  \E in \in Inputs :
    /\ qa = in.a /\ qb = in.b /\ C = in.C /\ x0 = in.x0
    /\ x = in.x0
    /\ grad = SmoothGrad(in.a, in.b, in.x0)
    /\ f = RegularizedFunc(in.a, in.b, in.C, in.x0)
    /\ s = [j \in 0 .. OWLQN_M - 1 |-> <<>>]
    /\ y = [j \in 0 .. OWLQN_M - 1 |-> <<>>]
    /\ z = [j \in 0 .. OWLQN_M - 1 |-> NaV]
    /\ iter = 0
    /\ pg = ZeroVec(Len(in.x0)) /\ dx = ZeroVec(Len(in.x0))
    /\ x1 = ZeroVec(Len(in.x0)) /\ grad1 = ZeroVec(Len(in.x0))
    /\ orthant = ZeroVec(Len(in.x0)) /\ t = Zero /\ fls = Zero
    /\ pc = "loop"
    /\ ret = <<>>
    /\ ncalls = 1 /\ nwrites = 0 /\ trials = 0 /\ projected = FALSE
    /\ wrote = [j \in 0 .. OWLQN_M - 1 |-> -1]
    /\ recent = <<>>
    /\ readSlots = {}

\* the loop condition off by one
LoopContinues_OffByOne(it) == it <= OWLQN_MAX_ITER

\* owlqn.cc:79  the loop condition
LoopContinues(it) == it < OWLQN_MAX_ITER

\* owlqn.cc:79 loop test fails; owlqn.cc:108
Exhausted ==
  /\ pc = "loop"
  /\ ~LoopContinues(iter)
  /\ pc' = "done"
  /\ ret' = x
  /\ UNCHANGED <<qa, qb, C, x0, x, grad, f, s, y, z, iter, pg, dx, x1, grad1,
                 orthant, t, fls, ncalls, nwrites, trials, projected, wrote,
                 recent, readSlots>>

\* owlqn.cc:79-92 with the break taken; owlqn.cc:108
Converged ==
  /\ pc = "loop"
  /\ LoopContinues(iter)
  /\ LET g == PseudoGradient(x, grad, C) IN
       /\ OkVec(g) /\ IsFin(DotProduct(g, g))
       /\ BelowMinGradNorm(g)
       /\ pg' = g
  /\ pc' = "done"
  /\ ret' = x
  /\ UNCHANGED <<qa, qb, C, x0, x, grad, f, s, y, z, iter, dx, x1, grad1,
                 orthant, t, fls, ncalls, nwrites, trials, projected, wrote,
                 recent, readSlots>>

\* owlqn.cc:79-92 with the break not taken
Proceed ==
  /\ pc = "loop"
  /\ LoopContinues(iter)
  /\ LET g == PseudoGradient(x, grad, C) IN
       /\ OkVec(g) /\ IsFin(DotProduct(g, g))
       /\ ~BelowMinGradNorm(g)
       /\ pg' = g
  /\ pc' = "dir"
  /\ UNCHANGED <<qa, qb, C, x0, x, grad, f, s, y, z, iter, dx, x1, grad1,
                 orthant, t, fls, ret, ncalls, nwrites, trials, projected,
                 wrote, recent, readSlots>>

\* the correction projecting onto the orthant of pg instead of -pg
CorrectDirection_WrongOrthant(d, g) ==
  IF RLeq(Zero, DotProduct(d, g)) THEN Project(d, g) ELSE d

\* owlqn.cc:95
CorrectDirection(d, g) ==
  IF RLeq(Zero, DotProduct(d, g)) THEN Project(d, VNeg(g)) ELSE d

\* owlqn.cc:94-95
Direction ==
  /\ pc = "dir"
  /\ LET d == VNeg(ApproximateHg(iter, pg, s, y, z)) IN
       /\ OkVec(d) /\ IsFin(DotProduct(d, pg))
       /\ dx' = CorrectDirection(d, pg)
       /\ projected' = RLeq(Zero, DotProduct(d, pg))
  /\ readSlots' = HgSlots(iter)
  /\ pc' = "call"
  /\ UNCHANGED <<qa, qb, C, x0, x, grad, f, s, y, z, iter, pg, x1, grad1,
                 orthant, t, fls, ret, ncalls, nwrites, trials, wrote, recent>>

\* the orthant taken from -grad0 in every coordinate
Orthant_AllFromGradient(p0, g0) == VNeg(g0)

\* owlqn.cc:129-132
Orthant(p0, g0) ==
  [i \in DOMAIN p0 |-> IF p0[i][1] = 0 THEN RNeg(g0[i]) ELSE p0[i]]

\* owlqn.cc:97-98 (the call) and owlqn.cc:128-136
EnterLineSearch ==
  /\ pc = "call"
  /\ x1' = ZeroVec(dim) /\ grad1' = ZeroVec(dim)
  /\ orthant' = Orthant(x, pg)
  /\ t' = RInv(LINE_SEARCH_BETA)
  /\ trials' = 0
  /\ pc' = "ls"
  /\ UNCHANGED <<qa, qb, C, x0, x, grad, f, s, y, z, iter, pg, dx, fls, ret,
                 ncalls, nwrites, projected, wrote, recent, readSlots>>

\* the sufficient-decrease test with the comparison reversed
Rejected_Reversed(fn, f0, p0, g0, pn) ==
  RLess(fn, RAdd(f0, RMul(LINE_SEARCH_ALPHA, DotProduct(VSub(pn, p0), g0))))

\* the loop with a maximum shrink count
Rejected_MaxShrink(fn, f0, p0, g0, pn) ==
  /\ trials < 2
  /\ RLess(RAdd(f0, RMul(LINE_SEARCH_ALPHA, DotProduct(VSub(pn, p0), g0))), fn)

\* owlqn.cc:142  the loop continues while this holds
Rejected(fn, f0, p0, g0, pn) ==
  RLess(RAdd(f0, RMul(LINE_SEARCH_ALPHA, DotProduct(VSub(pn, p0), g0))), fn)

\* owlqn.cc:137-144, one pass of the do-while loop
Trial ==
  /\ pc = "ls"
  /\ LET tn == RMul(t, LINE_SEARCH_BETA)
         xn == Project(VAdd(x, Scale(tn, dx)), orthant)
         fn == RegularizedFunc(qa, qb, C, xn)
         gn == SmoothGrad(qa, qb, xn)
     IN  /\ IsFin(tn) /\ OkVec(xn) /\ IsFin(fn) /\ OkVec(gn)
         /\ IsFin(RAdd(f, RMul(LINE_SEARCH_ALPHA, DotProduct(VSub(xn, x), pg))))
         /\ t' = tn /\ x1' = xn /\ grad1' = gn /\ fls' = fn
         /\ pc' = IF Rejected(fn, f, x, pg, xn) THEN "ls" ELSE "upd"
  /\ ncalls' = ncalls + 1
  /\ trials' = trials + 1
  /\ UNCHANGED <<qa, qb, C, x0, x, grad, f, s, y, z, iter, pg, dx, orthant,
                 ret, nwrites, projected, wrote, recent, readSlots>>

\* the slot index off by one
HistSlot_OffByOne(it) == (it + 1) % OWLQN_M

\* owlqn.cc:100-102  the slot written by iteration it
HistSlot(it) == it % OWLQN_M

\* owlqn.cc:102
Rho(yk, sk) == RInv(DotProduct(yk, sk))

\* owlqn.cc:98 (f receives the returned value), owlqn.cc:100-105 and the
\* ++iter of owlqn.cc:79
Update ==
  /\ pc = "upd"
  /\ LET j == HistSlot(iter)
         sk == VSub(x1, x)
         yk == VSub(grad1, grad)
         zk == Rho(yk, sk)
     IN  /\ OkVec(sk) /\ OkVec(yk) /\ zk # NaV
         /\ s' = [s EXCEPT ![j] = sk]
         /\ y' = [y EXCEPT ![j] = yk]
         /\ z' = [z EXCEPT ![j] = zk]
         /\ wrote' = [wrote EXCEPT ![j] = iter]
         /\ recent' = (IF Len(recent) < OWLQN_M THEN recent ELSE Tail(recent))
                        \o <<[it |-> iter, s |-> sk, y |-> yk, z |-> zk]>>
  /\ f' = fls
  /\ x' = x1
  /\ grad' = grad1
  /\ iter' = iter + 1
  /\ nwrites' = nwrites + 1
  /\ pc' = "loop"
  /\ UNCHANGED <<qa, qb, C, x0, pg, dx, x1, grad1, orthant, t, fls, ret,
                 ncalls, trials, projected, readSlots>>

Next ==
  \/ Exhausted
  \/ Converged
  \/ Proceed
  \/ Direction
  \/ EnterLineSearch
  \/ Trial
  \/ Update

Spec == Init /\ [][Next]_vars

\* ------------------------------------------------------------------------
\* PseudoGradient on its own: the inputs are drawn from bounded sets and
\* the function is applied once (the call of owlqn.cc:80).
PGPoints == {R(-1), Zero, Half, R(2)}
PGGrads == {R(-2), <<-1, 2>>, Zero, R(1), R(2)}

InitPG ==
  /\ x \in {<<u, v>> : u \in PGPoints, v \in PGPoints}
  /\ grad \in {<<u, v>> : u \in PGGrads, v \in PGGrads}
  /\ C \in {Zero, Half, R(1), R(2)}
  /\ x0 = x
  /\ qa = <<0, 0>> /\ qb = <<0, 0>>
  /\ f = Zero
  /\ s = [j \in 0 .. OWLQN_M - 1 |-> <<>>]
  /\ y = [j \in 0 .. OWLQN_M - 1 |-> <<>>]
  /\ z = [j \in 0 .. OWLQN_M - 1 |-> NaV]
  /\ iter = 0
  /\ pg = ZeroVec(2) /\ dx = ZeroVec(2)
  /\ x1 = ZeroVec(2) /\ grad1 = ZeroVec(2)
  /\ orthant = ZeroVec(2) /\ t = Zero /\ fls = Zero
  /\ pc = "pgin"
  /\ ret = <<>>
  /\ ncalls = 0 /\ nwrites = 0 /\ trials = 0 /\ projected = FALSE
  /\ wrote = [j \in 0 .. OWLQN_M - 1 |-> -1]
  /\ recent = <<>>
  /\ readSlots = {}

\* owlqn.cc:80
ApplyPseudoGradient ==
  /\ pc = "pgin"
  /\ pg' = PseudoGradient(x, grad, C)
  /\ pc' = "pgout"
  /\ UNCHANGED <<qa, qb, C, x0, x, grad, f, s, y, z, iter, dx, x1, grad1,
                 orthant, t, fls, ret, ncalls, nwrites, trials, projected,
                 wrote, recent, readSlots>>

NextPG == ApplyPseudoGradient

SpecPG == InitPG /\ [][NextPG]_vars

\* ------------------------------------------------------------------------
\* Properties

\* the value the pseudo-gradient has in coordinate i
PGExpected(i) ==
  IF x[i] # Zero
    THEN IF RLess(Zero, x[i]) THEN RAdd(grad[i], C) ELSE RSub(grad[i], C)
    ELSE IF RLess(Zero, RSub(grad[i], C)) THEN RSub(grad[i], C)
    ELSE IF RLess(RAdd(grad[i], C), Zero) THEN RAdd(grad[i], C)
    ELSE Zero

\* C1: PseudoGradient(x, grad, C) is grad[i] + C*sign(x[i]) where x[i] # 0;
\* where x[i] = 0 it is grad[i] - C if that is positive, else grad[i] + C if
\* that is negative, else 0; x and grad are left as they were.
PseudoGradientCorrect ==
  /\ [](pc = "pgout" => \A i \in DOMAIN x : pg[i] = PGExpected(i))
  /\ [][x' = x /\ grad' = grad]_vars

PseudoGradientWitness ==
  /\ pc = "pgout"
  /\ RLess(Zero, C)
  /\ x[1] = Zero /\ grad[1] = Zero /\ pg[1] = Zero
  /\ RLess(x[2], Zero) /\ pg[2] = RSub(grad[2], C)

\* the trial point before the projection of owlqn.cc:140
Unprojected == VAdd(x, Scale(t, dx))

\* the smooth loss is convex
Convex == \A i \in DOMAIN qa : qa[i] >= 0

\* C2 as stated: whenever the line search returns, the objective it returns
\* is at most the objective before the iteration, whatever the oracle.
MonotoneDescent == pc = "upd" => RLeq(fls, f)

\* C2 amended: the same, for a convex smooth loss.
MonotoneDescentConvex == (pc = "upd" /\ Convex) => RLeq(fls, f)

MonotoneDescentWitness ==
  /\ pc = "upd" /\ Convex /\ RLess(fls, f)
  /\ iter >= 3 /\ \A j \in 0 .. 2 : z[j] # Inf

\* the smooth loss has a minimizer whose coordinate i is zero
MinimizerHasZero(i) == qa[i] >= 0 /\ qb[i] = 0

\* C3: with C = 0 the accepted iterate is the unprojected point x0 + t*dx,
\* except in coordinates where the minimizer of the smooth loss is zero.
CZeroUnconstrained ==
  (pc = "upd" /\ C = Zero) =>
     \A i \in DOMAIN x1 : x1[i] = Unprojected[i] \/ MinimizerHasZero(i)

\* the oldest iteration whose triple is still held at iteration iter
HistFirst == IF iter <= OWLQN_M THEN 0 ELSE iter - OWLQN_M

\* C4: at the start of iteration k exactly min(k, OWLQN_M) slots are valid,
\* slot j mod OWLQN_M holds the triple of iteration j for every j of the
\* last min(k, OWLQN_M) iterations, and ApproximateHg reads those slots only.
HistoryWindow ==
  /\ pc = "loop" =>
       /\ Cardinality({j \in 0 .. OWLQN_M - 1 : wrote[j] >= 0})
            = IF iter <= OWLQN_M THEN iter ELSE OWLQN_M
       /\ \A k \in HistFirst .. iter - 1 :
            /\ wrote[k % OWLQN_M] = k
            /\ recent[k - HistFirst + 1] =
                 [it |-> k, s |-> s[k % OWLQN_M], y |-> y[k % OWLQN_M],
                  z |-> z[k % OWLQN_M]]
  /\ pc = "call" =>
       /\ readSlots = {k % OWLQN_M : k \in HistFirst .. iter - 1}
       /\ \A j \in readSlots : wrote[j] >= HistFirst /\ wrote[j] < iter

HistoryWindowWitness ==
  /\ pc = "call"
  /\ iter > OWLQN_M + 1
  /\ Cardinality(readSlots) = OWLQN_M
  /\ \E j \in readSlots : z[j] # Inf
  /\ \E j \in readSlots : \E k \in readSlots : s[j] # s[k]

\* C5: the iteration counter never exceeds OWLQN_MAX_ITER and grows by one
\* per iteration; the driver stops when the counter reaches OWLQN_MAX_ITER or
\* at the first iteration whose pseudo-gradient norm is below the threshold,
\* without an oracle call, a line search or a history write in that
\* iteration, and returns the current point: the last accepted iterate, or
\* x0 when none was accepted.
DriverStopping ==
  /\ [](iter <= OWLQN_MAX_ITER)
  /\ [](pc = "done" =>
          /\ ret = x
          /\ (iter = 0 => x = x0)
          /\ (iter > 0 => x = x1))
  /\ [][/\ iter' = iter \/ (iter' = iter + 1 /\ pc = "upd")
        /\ pc = "upd" => iter' = iter + 1
        /\ pc # "done"
        /\ (pc = "loop" /\ iter = OWLQN_MAX_ITER) => pc' = "done"
        /\ (pc = "loop" /\ iter < OWLQN_MAX_ITER) =>
             (pc' = "done" <=> BelowMinGradNorm(PseudoGradient(x, grad, C)))
        /\ (pc = "loop" /\ pc' = "done") =>
             /\ ncalls' = ncalls /\ nwrites' = nwrites /\ trials' = trials
             /\ s' = s /\ y' = y /\ z' = z
             /\ x' = x /\ grad' = grad /\ f' = f
             /\ ret' = x]_vars

DriverStoppingWitness == pc = "done" /\ iter = OWLQN_MAX_ITER /\ ret = x /\ x # x0

\* C6: no infinite or undefined rho is ever stored in the history.
RhoFinite == \A j \in 0 .. OWLQN_M - 1 : wrote[j] >= 0 => IsFin(z[j])

\* the regularized objective smooth_loss(v) + C * sum |v[i]|
Objective(v) ==
  RAdd(SmoothLoss(qa, qb, v),
       DotProduct(Scale(C, v), [i \in DOMAIN v |-> R(Sign(v[i]))]))

\* C7: at the start of every iteration grad is the smooth gradient at x and
\* f the regularized objective at x; the x1, grad1 and f the line search
\* returns belong to the same trial point.
StateConsistent ==
  /\ pc = "loop" => grad = SmoothGrad(qa, qb, x) /\ f = Objective(x)
  /\ pc = "upd" => grad1 = SmoothGrad(qa, qb, x1) /\ fls = Objective(x1)

StateConsistentWitness ==
  /\ pc = "loop" /\ iter >= 2 /\ x # x0
  /\ RLess(Zero, C)
  /\ \E i \in DOMAIN x : RLess(x[i], Zero)

\* C8 as stated: the direction passed to the line search has dx.pg < 0.
DescentStrict == pc = "call" => RLess(DotProduct(dx, pg), Zero)

\* C8 amended: the direction passed to the line search has dx.pg <= 0, and
\* dx.pg = 0 only when the projection of owlqn.cc:95 zeroed every coordinate.
DescentWeak ==
  pc = "call" =>
    /\ RLeq(DotProduct(dx, pg), Zero)
    /\ DotProduct(dx, pg) = Zero => (projected /\ dx = ZeroVec(dim))

DescentWeakWitness ==
  pc = "call" /\ projected /\ RLess(DotProduct(dx, pg), Zero)

\* C9: every trial point lies in the orthant of the reference vector: a
\* coordinate is zero or has the sign of x[i] where x[i] # 0, and is zero or
\* has the sign of -pg[i] where x[i] = 0.
OrthantRespected ==
  (pc \in {"ls", "upd"} /\ trials >= 1) =>
     \A i \in DOMAIN x :
        \/ x1[i] = Zero
        \/ x[i] # Zero /\ Sign(x1[i]) = Sign(x[i])
        \/ x[i] = Zero /\ Sign(x1[i]) = -Sign(pg[i])

OrthantRespectedWitness ==
  /\ pc = "upd"
  /\ \E i \in DOMAIN x : x[i] # Zero /\ x1[i] = Zero /\ Unprojected[i] # Zero
  /\ \E i \in DOMAIN x : x[i] = Zero /\ x1[i] # Zero

\* the acceptance condition f <= f0 + 0.1 * (x - x0).pg0 for a trial point
ArmijoHolds(fn, pn) ==
  RLeq(fn, RAdd(f, RMul(<<1, 10>>, DotProduct(VSub(pn, x), pg))))

\* C10: the trials use t = 1, 1/2, 1/4, ...; a trial that fails the
\* acceptance condition is always followed by another one, and the search
\* returns at the first trial that satisfies it.
LineSearchLoop ==
  /\ []((pc \in {"ls", "upd"} /\ trials >= 1) => t = <<1, 2 ^ (trials - 1)>>)
  /\ [][pc = "ls" =>
          /\ trials' = trials + 1
          /\ pc' = IF ArmijoHolds(fls', x1') THEN "upd" ELSE "ls"]_vars

LineSearchLoopWitness == pc = "ls" /\ trials >= 3


=============================================================================
